---- MODULE Spec2Model ----
(***************************************************************************)
(* The model registry of the AR viewer (ModelManager, the last part of     *)
(* src/AR/scripts/generate-qr.js): a defaults record, a table of model     *)
(* records, and the operations getModel, getAllModels, addModel,           *)
(* getModelUrl and getQRUrl.                                               *)
(*                                                                         *)
(* JavaScript values are tagged records [t |-> type, v |-> payload]; a     *)
(* plain object's payload is the function from its own enumerable property *)
(* names to their values.  ModelManager.models is an object literal, so    *)
(* its prototype is Object.prototype: a property read walks the prototype  *)
(* chain, and an assignment to the name "__proto__" runs the inherited     *)
(* setter.  The model keeps both.                                          *)
(***************************************************************************)
EXTENDS Integers, Sequences, FiniteSets, TLC

VARIABLES
    defaults,   \* ModelManager.defaults: its own properties
    models,     \* ModelManager.models: its own properties (key -> record)
    proto,      \* the [[Prototype]] of ModelManager.models
    order,      \* the own property names of ModelManager.models, in creation order
    op,         \* the last call made: [name, id, cfg, base]
    ret,        \* what that call returned
    added,      \* history: key -> [model, defaults] of the last addModel for it
    writes,     \* history: number of calls so far that changed state
    qr,         \* a run of the generate-qr tool (a process of its own)
    builder,    \* a series of runs of the add-model tool (processes of their own)
    page        \* a page that loads config.js: the configuration and the document

vars == <<defaults, models, proto, order, op, ret, added, writes, qr, builder, page>>

\* The state of the two command-line tools and of the page, which the
\* registry never touches
toolVars == <<qr, builder, page>>

----------------------------------------------------------------------------
(* Bounds *)

\* addModel calls and changes to defaults in one run
MaxWrites == 2

----------------------------------------------------------------------------
(* JavaScript values *)

Str(s) == [t |-> "string", v |-> s]
Num(n) == [t |-> "number", v |-> n]
Bool(b) == [t |-> "boolean", v |-> b]
Obj(props) == [t |-> "object", v |-> props]
Arr(elems) == [t |-> "array", v |-> elems]
Builtin(name) == [t |-> "builtin", v |-> name]
Undefined == [t |-> "undefined", v |-> "undefined"]
Null == [t |-> "null", v |-> "null"]

NoProps == [k \in {} |-> Undefined]

\* Object.prototype, the prototype of every object literal
ObjectPrototype == Builtin("Object.prototype")

\* ToBoolean, as `!model` applies it
Truthy(x) ==
    CASE x.t = "undefined" -> FALSE
      [] x.t = "null" -> FALSE
      [] x.t = "boolean" -> x.v
      [] x.t = "number" -> x.v # 0
      [] x.t = "string" -> x.v # ""
      [] OTHER -> TRUE

\* The characters of the strings a spread can meet in this model
\* (TLC cannot index a string).
CharsOf(s) ==
    CASE s = "" -> <<>>
      [] s = "p" -> <<"p">>

\* The own enumerable properties `...x` copies: those of an object, the
\* indexed characters of a string, none for any other value.
DigitKey(i) == CASE i = 1 -> "0" [] i = 2 -> "1" [] i = 3 -> "2"
OwnProps(x) ==
    CASE x.t = "object" -> x.v
      [] x.t = "string" ->
            [k \in {DigitKey(i) : i \in 1..Len(CharsOf(x.v))} |->
                Str(CharsOf(x.v)[CHOOSE i \in 1..Len(CharsOf(x.v)) : DigitKey(i) = k])]
      [] OTHER -> NoProps

\* Variants of the spread used to test the properties: a's properties win;
\* b's properties are never copied.
SpreadDefaultsWin(a, b) ==
    Obj([k \in DOMAIN OwnProps(a) \cup DOMAIN OwnProps(b) |->
            IF k \in DOMAIN OwnProps(a) THEN OwnProps(a)[k] ELSE OwnProps(b)[k]])

SpreadOnlyMissing(a, b) ==
    Obj([k \in DOMAIN OwnProps(a) \ DOMAIN OwnProps(b) |-> OwnProps(a)[k]])

\* { ...a, ...b }: a fresh object with a's own properties overwritten by b's
Spread(a, b) ==
    Obj([k \in DOMAIN OwnProps(a) \cup DOMAIN OwnProps(b) |->
            IF k \in DOMAIN OwnProps(b) THEN OwnProps(b)[k] ELSE OwnProps(a)[k]])

\* x.id on an object literal: the own property, else undefined
\* (Object.prototype has no "id")
IdOf(x) == IF "id" \in DOMAIN OwnProps(x) THEN OwnProps(x)["id"] ELSE Undefined

\* ToPropertyKey, and ToString in a template literal, of the values used
\* as identifiers and base URLs
ToPropertyKey(x) ==
    CASE x.t = "string" -> x.v
      [] x.t = "undefined" -> "undefined"
      [] x.t = "null" -> "null"

----------------------------------------------------------------------------
(* The data of the module *)

TemplateId == "client-model-template"

DefaultsAtStart ==
    Obj([arScale |-> Str("1 1 1"),
         arPlacement |-> Str("floor"),
         autoRotate |-> Bool(TRUE),
         autoRotateDelay |-> Num(1000),
         rotationSpeed |-> Str("30deg"),
         cameraControls |-> Bool(TRUE),
         shadowIntensity |-> Num(1),
         exposure |-> Num(1),
         environmentImage |-> Str("neutral")])

\* The leading emoji of the two theme titles are left out of the strings.
TerracedScene ==
    Obj([id |-> Str("terraced-scene"),
         name |-> Str("Terraced Garden Scene"),
         description |-> Str("Professional landscape architecture visualization with detailed terrain modeling"),
         client |-> Str("CMMG Design Studio"),
         src |-> Str("./models/TerracedScene.glb"),
         poster |-> Str(""),
         arScale |-> Str("0.1 0.1 0.1"),
         arPlacement |-> Str("floor"),
         autoRotate |-> Bool(TRUE),
         rotationSpeed |-> Str("15deg"),
         cameraOrbit |-> Str("0deg 60deg 120%"),
         projectInfo |-> Obj([date |-> Str("2024"),
                              type |-> Str("Landscape Architecture"),
                              status |-> Str("Design Presentation")]),
         theme |-> Obj([primaryColor |-> Str("#2E7D32"),
                        backgroundColor |-> Str("linear-gradient(135deg, #4CAF50 0%, #2E7D32 100%)"),
                        title |-> Str("Terraced Landscape")])])

ClientModelTemplate ==
    Obj([id |-> Str(TemplateId),
         name |-> Str("Client Model Name"),
         description |-> Str("Brief description of the model"),
         client |-> Str("Client Company Name"),
         src |-> Str("./models/client-model.glb"),
         poster |-> Str("./models/client-model.jpg"),
         arScale |-> Str("1 1 1"),
         arPlacement |-> Str("floor"),
         autoRotate |-> Bool(TRUE),
         rotationSpeed |-> Str("30deg"),
         cameraOrbit |-> Str("0deg 75deg 105%"),
         projectInfo |-> Obj([date |-> Str("2024"),
                              type |-> Str("Project Type"),
                              status |-> Str("Design Phase")]),
         theme |-> Obj([primaryColor |-> Str("#1976D2"),
                        backgroundColor |-> Str("linear-gradient(135deg, #2196F3 0%, #1976D2 100%)"),
                        title |-> Str("Your Project")])])

ModelsAtStart ==
    ("terraced-scene" :> TerracedScene) @@ (TemplateId :> ClientModelTemplate)

----------------------------------------------------------------------------
(* Inputs of the calls *)

\* Records handed to addModel.
ChairCfg == Obj([id |-> Str("chair"), src |-> Str("chair.glb")])
SiteCfg == Obj([id |-> Str("site"), arScale |-> Str("0.1 0.1 0.1")])
ChairAgainCfg ==
    Obj([id |-> Str("chair"),
         name |-> Str("Chair"),
         autoRotate |-> Bool(FALSE),
         theme |-> Obj([primaryColor |-> Str("#4285f4")])])
TemplateCfg == Obj([id |-> Str(TemplateId), name |-> Str("Template copy")])
TerracedAgainCfg == Obj([id |-> Str("terraced-scene"), arScale |-> Str("0.05 0.05 0.05")])
ProtoCfg == Obj([id |-> Str("__proto__"), src |-> Str("p"), poster |-> Str("")])
ConstructorCfg == Obj([id |-> Str("constructor"), src |-> Str("c.glb")])
NoIdCfg == Obj([src |-> Str("noid.glb")])

AddInputs ==
    {ChairCfg, SiteCfg, ChairAgainCfg, TemplateCfg, TerracedAgainCfg,
     ProtoCfg, ConstructorCfg, NoIdCfg}

\* Identifiers handed to getModel.
LookupIds ==
    {"terraced-scene", TemplateId, "chair", "site", "nonexistent-id",
     "undefined", "constructor", "__proto__", "autoRotate", "poster", "src"}

\* Identifiers handed to getModelUrl and getQRUrl: one registered, one not.
UrlIds == {"terraced-scene", "nonexistent-id"}

\* Base URLs handed to getModelUrl and getQRUrl (Undefined: argument omitted).
BaseUrls == {Undefined, Str(""), Str("https://example.com/")}

\* Assignments a caller holding the exported object can make to
\* ModelManager.defaults[key].
DefaultsChanges ==
    {<<"arScale", Str("2 2 2")>>,
     <<"exposure", Num(2)>>,
     <<"cameraOrbit", Str("0deg 75deg 105%")>>}

----------------------------------------------------------------------------
(* Property access on ModelManager.models *)

\* What Object.prototype holds under a name
ObjectPrototypeGet(key) ==
    IF key \in {"constructor", "toString", "valueOf", "hasOwnProperty"}
    THEN Builtin(key)
    ELSE Undefined

\* this.models[key]: the own property, else the prototype chain; "__proto__"
\* is the accessor inherited from Object.prototype, which yields the prototype.
ModelsGet(key) ==
    IF key = "__proto__" THEN proto
    ELSE IF key \in DOMAIN models THEN models[key]
    ELSE IF key \in DOMAIN OwnProps(proto) /\ proto.t = "object" THEN proto.v[key]
    ELSE ObjectPrototypeGet(key)

----------------------------------------------------------------------------
(* The operations of ModelManager *)

\* Variant of getModel used to test the properties: defaults win the merge.
getModelDefaultsWin(modelId) ==
    LET model == ModelsGet(modelId)
    IN  IF ~Truthy(model) THEN Null ELSE SpreadDefaultsWin(defaults, model)

getModel(modelId) ==
    LET model == ModelsGet(modelId)
    IN  IF ~Truthy(model) THEN Null ELSE Spread(defaults, model)

\* Object.values(this.models): the own values in property order
ObjectValues == [i \in 1..Len(order) |-> models[order[i]]]

\* Variant of getAllModels used to test the properties: no filter.
getAllModelsUnfiltered == Arr(ObjectValues)

getAllModels ==
    Arr(SelectSeq(ObjectValues, LAMBDA model : IdOf(model) # Str(TemplateId)))

\* Variant of getModelUrl used to test the properties: the base is dropped.
getModelUrlNoBase(modelId, baseUrl) == Str("model.html?id=" \o modelId)

\* getModelUrl(modelId, baseUrl = "")
getModelUrl(modelId, baseUrl) ==
    LET base == IF baseUrl = Undefined THEN Str("") ELSE baseUrl
    IN  Str(ToPropertyKey(base) \o "model.html?id=" \o modelId)

getQRUrl(modelId, baseUrl) == getModelUrl(modelId, baseUrl)

----------------------------------------------------------------------------
(* ModelManager.scale.  A number is held as a whole count of units of
   0.00001; the inputs are chosen so that the quotient cm / 100 and the
   product feet * 0.3048 are whole counts too and the shortest decimal that
   JavaScript prints for the double result is the exact decimal result
   (a correctly rounded quotient; a product by a power of two). *)

Scaled(u) == [t |-> "number in units of 0.00001", v |-> u]

\* 0.3048 as a count of ten-thousandths
MetersPerFoot == 3048

Digit(d) ==
    CASE d = 0 -> "0" [] d = 1 -> "1" [] d = 2 -> "2" [] d = 3 -> "3"
      [] d = 4 -> "4" [] d = 5 -> "5" [] d = 6 -> "6" [] d = 7 -> "7"
      [] d = 8 -> "8" [] d = 9 -> "9"

RECURSIVE NatToString(_)
NatToString(n) ==
    IF n < 10 THEN Digit(n) ELSE NatToString(n \div 10) \o Digit(n % 10)

\* f as exactly w digits, zeros on the left included
RECURSIVE FixedDigits(_, _)
FixedDigits(f, w) ==
    IF w = 0 THEN "" ELSE FixedDigits(f \div 10, w - 1) \o Digit(f % 10)

\* the decimals of the fraction f / 10^w, f > 0, without its trailing zeros
RECURSIVE FractionToString(_, _)
FractionToString(f, w) ==
    IF f % 10 = 0 THEN FractionToString(f \div 10, w - 1) ELSE FixedDigits(f, w)

\* Number::toString of u units: "-" if negative, the integer part, and "."
\* with the decimals if there are any
NumberToString(u) ==
    LET a == IF u < 0 THEN 0 - u ELSE u
        whole == a \div 100000
        f == a % 100000
    IN  (IF u < 0 THEN "-" ELSE "") \o NatToString(whole)
            \o (IF f = 0 THEN "" ELSE "." \o FractionToString(f, 5))

\* `${meters} ${meters} ${meters}`
fromMeters(meters) ==
    Str(NumberToString(meters) \o " " \o NumberToString(meters)
            \o " " \o NumberToString(meters))

\* Variant of fromCentimeters used to test the properties: multiplies by 100.
fromCentimetersTimes100(cm) == fromMeters(cm * 100)

\* const meters = cm / 100
fromCentimeters(cm) == fromMeters(cm \div 100)

\* const meters = feet * 0.3048
fromFeet(feet) == fromMeters((feet * MetersPerFoot) \div 10000)

\* The named scales
ScalePresets ==
    [architectural |-> Str("0.1 0.1 0.1"),
     furniture |-> Str("1 1 1"),
     product |-> Str("1 1 1"),
     building |-> Str("0.01 0.01 0.01"),
     landscape |-> Str("0.05 0.05 0.05")]

\* Arguments of the conversions, in units: 0, 0.1, 2.5 and -1
\* meters; 2.5 and 100 centimeters; 1 and 2 feet.
MeterInputs == {0, 10000, 250000, 0 - 100000}
CentimeterInputs == {250000, 10000000}
FeetInputs == {100000, 200000}

Call(name, id, cfg, base) == [name |-> name, id |-> id, cfg |-> cfg, base |-> base]

\* Variant of the getModel call used to test the properties: the merged
\* record is cached in the table.
CallGetModelCaches(modelId) ==
    /\ op' = Call("getModel", modelId, Undefined, Undefined)
    /\ ret' = getModel(modelId)
    /\ models' = IF ret'.t = "object" THEN (modelId :> ret') @@ models ELSE models
    /\ order' = IF ret'.t = "object" /\ modelId \notin DOMAIN models
                THEN Append(order, modelId) ELSE order
    /\ UNCHANGED <<defaults, proto, added, writes>>

CallGetModel(modelId) ==
    /\ op' = Call("getModel", modelId, Undefined, Undefined)
    /\ ret' = getModel(modelId)
    /\ UNCHANGED <<defaults, models, proto, order, added, writes>>

CallGetAllModels ==
    /\ op' = Call("getAllModels", "", Undefined, Undefined)
    /\ ret' = getAllModels
    /\ UNCHANGED <<defaults, models, proto, order, added, writes>>

CallGetModelUrl(modelId, baseUrl) ==
    /\ op' = Call("getModelUrl", modelId, Undefined, baseUrl)
    /\ ret' = getModelUrl(modelId, baseUrl)
    /\ UNCHANGED <<defaults, models, proto, order, added, writes>>

CallGetQRUrl(modelId, baseUrl) ==
    /\ op' = Call("getQRUrl", modelId, Undefined, baseUrl)
    /\ ret' = getQRUrl(modelId, baseUrl)
    /\ UNCHANGED <<defaults, models, proto, order, added, writes>>

CallFromMeters(meters) ==
    /\ op' = Call("fromMeters", "", Scaled(meters), Undefined)
    /\ ret' = fromMeters(meters)
    /\ UNCHANGED <<defaults, models, proto, order, added, writes>>

CallFromCentimeters(cm) ==
    /\ op' = Call("fromCentimeters", "", Scaled(cm), Undefined)
    /\ ret' = fromCentimeters(cm)
    /\ UNCHANGED <<defaults, models, proto, order, added, writes>>

CallFromFeet(feet) ==
    /\ op' = Call("fromFeet", "", Scaled(feet), Undefined)
    /\ ret' = fromFeet(feet)
    /\ UNCHANGED <<defaults, models, proto, order, added, writes>>

\* Variants of addModel used to test the properties: an existing entry is
\* kept (first write wins); the merge is made into defaults itself
\* (Object.assign(this.defaults, modelConfig)).
addModelKeepsFirst(modelConfig) ==
    LET model == Spread(defaults, modelConfig)
        key == ToPropertyKey(IdOf(model))
    IN  /\ writes < MaxWrites
        /\ IF key = "__proto__"
           THEN /\ proto' = model
                /\ UNCHANGED <<models, order>>
           ELSE /\ models' = IF key \in DOMAIN models THEN models ELSE (key :> model) @@ models
                /\ order' = IF key \in DOMAIN models THEN order ELSE Append(order, key)
                /\ UNCHANGED proto
        /\ op' = Call("addModel", key, modelConfig, Undefined)
        /\ ret' = model
        /\ added' = (key :> [model |-> model, defaults |-> defaults]) @@ added
        /\ writes' = writes + 1
        /\ UNCHANGED defaults

addModelAssignsDefaults(modelConfig) ==
    LET model == Spread(defaults, modelConfig)
        key == ToPropertyKey(IdOf(model))
    IN  /\ writes < MaxWrites
        /\ defaults' = model
        /\ IF key = "__proto__"
           THEN /\ proto' = model
                /\ UNCHANGED <<models, order>>
           ELSE /\ models' = (key :> model) @@ models
                /\ order' = IF key \in DOMAIN models THEN order ELSE Append(order, key)
                /\ UNCHANGED proto
        /\ op' = Call("addModel", key, modelConfig, Undefined)
        /\ ret' = model
        /\ added' = (key :> [model |-> model, defaults |-> defaults]) @@ added
        /\ writes' = writes + 1

\* Variant of addModel used to test the properties: the record is stored
\* under its src.
addModelKeyedBySrc(modelConfig) ==
    LET model == Spread(defaults, modelConfig)
        key == ToPropertyKey(IF "src" \in DOMAIN OwnProps(model) THEN OwnProps(model)["src"] ELSE Undefined)
    IN  /\ writes < MaxWrites
        /\ IF key = "__proto__"
           THEN /\ proto' = model
                /\ UNCHANGED <<models, order>>
           ELSE /\ models' = (key :> model) @@ models
                /\ order' = IF key \in DOMAIN models THEN order ELSE Append(order, key)
                /\ UNCHANGED proto
        /\ op' = Call("addModel", key, modelConfig, Undefined)
        /\ ret' = model
        /\ added' = (key :> [model |-> model, defaults |-> defaults]) @@ added
        /\ writes' = writes + 1
        /\ UNCHANGED defaults

\* const model = {...this.defaults, ...modelConfig};
\* this.models[model.id] = model; return model
addModel(modelConfig) ==
    LET model == Spread(defaults, modelConfig)
        key == ToPropertyKey(IdOf(model))
    IN  /\ writes < MaxWrites
        /\ IF key = "__proto__"
           THEN /\ proto' = model
                /\ UNCHANGED <<models, order>>
           ELSE /\ models' = (key :> model) @@ models
                /\ order' = IF key \in DOMAIN models THEN order ELSE Append(order, key)
                /\ UNCHANGED proto
        /\ op' = Call("addModel", key, modelConfig, Undefined)
        /\ ret' = model
        /\ added' = (key :> [model |-> model, defaults |-> defaults]) @@ added
        /\ writes' = writes + 1
        /\ UNCHANGED defaults

\* ModelManager.defaults[key] = value, by a holder of the exported object
ChangeDefaults(key, value) ==
    /\ writes < MaxWrites
    /\ defaults' = Obj((key :> value) @@ defaults.v)
    /\ defaults' # defaults
    /\ op' = Call("changeDefaults", key, value, Undefined)
    /\ ret' = Undefined
    /\ writes' = writes + 1
    /\ UNCHANGED <<models, proto, order, added>>

----------------------------------------------------------------------------
(* The specification *)

NoCall == Call("load", "", Undefined, Undefined)

\* The tools before any run
NotRun == [pc |-> "not run"]

\* ModelManager as the module is loaded
RegistryAtLoad ==
    /\ defaults = DefaultsAtStart
    /\ models = ModelsAtStart
    /\ proto = ObjectPrototype
    /\ order = <<"terraced-scene", TemplateId>>
    /\ op = NoCall
    /\ ret = Undefined
    /\ added = [k \in {} |-> Undefined]
    /\ writes = 0

Init == RegistryAtLoad /\ qr = NotRun /\ builder = NotRun /\ page = NotRun

\* A caller may hand addModel any object it holds, one returned by an
\* earlier getModel or addModel included.
Next ==
    \/ \E modelId \in LookupIds : CallGetModel(modelId) /\ UNCHANGED toolVars
    \/ CallGetAllModels /\ UNCHANGED toolVars
    \/ \E modelId \in UrlIds, baseUrl \in BaseUrls :
            CallGetModelUrl(modelId, baseUrl) /\ UNCHANGED toolVars
    \/ \E modelId \in UrlIds, baseUrl \in BaseUrls :
            CallGetQRUrl(modelId, baseUrl) /\ UNCHANGED toolVars
    \/ \E modelConfig \in AddInputs \cup (IF ret.t = "object" THEN {ret} ELSE {}) :
            addModel(modelConfig) /\ UNCHANGED toolVars
    \/ \E change \in DefaultsChanges :
            ChangeDefaults(change[1], change[2]) /\ UNCHANGED toolVars
    \/ \E meters \in MeterInputs : CallFromMeters(meters) /\ UNCHANGED toolVars
    \/ \E cm \in CentimeterInputs : CallFromCentimeters(cm) /\ UNCHANGED toolVars
    \/ \E feet \in FeetInputs : CallFromFeet(feet) /\ UNCHANGED toolVars

Spec == Init /\ [][Next]_vars

----------------------------------------------------------------------------
(* The generate-qr tool (the first part of src/AR/scripts/generate-qr.js).
   One run is one process: qr.args are its command-line arguments, qr.pc its
   position, qr.files the files on disk that it wrote (path -> what the file
   holds), qr.written the completed writes in order, qr.calls the calls made
   to the QRCode encoder, qr.out the messages printed, qr.failed whether a
   step has thrown.  The encoder and the file system are outside the program:
   each of their calls succeeds or throws. *)

DefaultUrl == "https://your-ar-site.com"
DefaultOutput == "qr-code.png"

\* Command lines: no argument; a URL; a URL and an output file; a help flag
\* in any position.
UrlArgs ==
    {"", DefaultUrl, "https://my-ar-site.netlify.app", "not a url",
     "example.com", "-h", "--help"}
OutputArgs == {"", "custom-qr.png", "out/site.png", "code.svg", "qr", "--help"}
QRArgLists ==
    {<<>>} \cup {<<u>> : u \in UrlArgs}
           \cup {<<u, o>> : u \in UrlArgs, o \in OutputArgs}
           \cup {<<"https://my-ar-site.netlify.app", "custom-qr.png", "-h">>}

\* args[i] || fallback: args[i] is undefined past the end, "" is falsy
ArgOr(args, i, fallback) ==
    IF Len(args) > i /\ args[i + 1] # "" THEN args[i + 1] ELSE fallback

\* args.includes(flag)
Includes(args, flag) == \E i \in 1..Len(args) : args[i] = flag

\* new URL(string) succeeds: over the URL arguments above, for those that
\* name a scheme
isValidUrl(string) ==
    string \in {DefaultUrl, "https://my-ar-site.netlify.app"}

\* path.parse(p).name and path.dirname(p), over the output files above
PathName(p) ==
    CASE p = "qr-code.png" -> "qr-code"
      [] p = "custom-qr.png" -> "custom-qr"
      [] p = "out/site.png" -> "site"
      [] p = "code.svg" -> "code"
      [] p = "qr" -> "qr"
      [] p = "--help" -> "--help"

PathDir(p) == IF p = "out/site.png" THEN "out" ELSE "."

\* path.join(dir, file): "." is normalised away
PathJoin(dir, file) == IF dir = "." THEN file ELSE dir \o "/" \o file

SvgPath(outputPath) == PathJoin(PathDir(outputPath), PathName(outputPath) \o ".svg")
HtmlPath(outputPath) ==
    PathJoin(PathDir(outputPath), PathName(outputPath) \o "-preview.html")

Artifact(type, text) == [type |-> type, text |-> text]

QRStart(args) ==
    [pc |-> "main",
     args |-> args,
     url |-> ArgOr(args, 0, DefaultUrl),
     outputFile |-> ArgOr(args, 1, DefaultOutput),
     files |-> [p \in {} |-> Artifact("", "")],
     written |-> <<>>,
     calls |-> <<>>,
     out |-> <<>>,
     attempted |-> FALSE,
     failed |-> FALSE,
     exited |-> FALSE,
     code |-> 0]

\* What a call that writes a file does: it writes the file, or throws with
\* nothing written, or throws with a partial file left.
WriteOutcomes == {"written", "throws", "throws, partial file"}

\* qr after a write of `artifact` to `path` with the given outcome; on
\* success `message` is printed and the run goes on at `next`
AfterWrite(path, artifact, outcome, message, next) ==
    LET put == [p \in DOMAIN qr.files \cup {path} |->
                    IF p = path
                    THEN (IF outcome = "written" THEN artifact
                          ELSE Artifact("partial", artifact.text))
                    ELSE qr.files[p]]
    IN  IF outcome = "written"
        THEN [qr EXCEPT !.files = put,
                        !.written = Append(@, [path |-> path, holds |-> artifact]),
                        !.out = Append(@, message), !.pc = next]
        ELSE IF outcome = "throws"
        THEN [qr EXCEPT !.failed = TRUE, !.pc = "catch"]
        ELSE [qr EXCEPT !.files = put, !.failed = TRUE, !.pc = "catch"]

\* Variant of the main execution used to test the properties: the
\* placeholder URL is not told apart.
QRMainPlaceholderGenerates ==
    /\ qr.pc = "main"
    /\ qr' = IF Includes(qr.args, "-h") \/ Includes(qr.args, "--help")
             THEN [qr EXCEPT !.out = Append(@, "help"), !.pc = "end"]
             ELSE [qr EXCEPT !.attempted = TRUE, !.pc = "validate"]
    /\ UNCHANGED <<defaults, models, proto, order, op, ret, added, writes, builder, page>>

\* Main execution: help, the request for a URL, or generateQRCode
QRMain ==
    /\ qr.pc = "main"
    /\ qr' = IF Includes(qr.args, "-h") \/ Includes(qr.args, "--help")
             THEN [qr EXCEPT !.out = Append(@, "help"), !.pc = "end"]
             ELSE IF qr.url = "" \/ qr.url = DefaultUrl
             THEN [qr EXCEPT !.out = @ \o <<"please provide your deployed URL", "help">>,
                             !.pc = "end"]
             ELSE [qr EXCEPT !.attempted = TRUE, !.pc = "validate"]
    /\ UNCHANGED <<defaults, models, proto, order, op, ret, added, writes, builder, page>>

\* Variant of the validation used to test the properties: no check.
QRValidateSkipped ==
    /\ qr.pc = "validate"
    /\ qr' = [qr EXCEPT !.out = Append(@, "generating"), !.pc = "png"]
    /\ UNCHANGED <<defaults, models, proto, order, op, ret, added, writes, builder, page>>

\* generateQRCode up to the URL check
QRValidate ==
    /\ qr.pc = "validate"
    /\ qr' = IF ~isValidUrl(qr.url)
             THEN [qr EXCEPT !.out = Append(@, "generating"), !.failed = TRUE,
                             !.pc = "catch"]
             ELSE [qr EXCEPT !.out = Append(@, "generating"), !.pc = "png"]
    /\ UNCHANGED <<defaults, models, proto, order, op, ret, added, writes, builder, page>>

\* await QRCode.toFile(outputPath, url, config.options)
QRToFilePng(outcome) ==
    /\ qr.pc = "png"
    /\ qr' = [AfterWrite(qr.outputFile, Artifact("png", qr.url), outcome,
                         "generated", "stat")
                EXCEPT !.calls = Append(@, <<"toFile", qr.outputFile, "png", qr.url>>)]
    /\ UNCHANGED <<defaults, models, proto, order, op, ret, added, writes, builder, page>>

\* fs.statSync(outputPath) and the file size line
QRStat(ok) ==
    /\ qr.pc = "stat"
    /\ qr' = IF ok THEN [qr EXCEPT !.out = Append(@, "file size"), !.pc = "svg"]
             ELSE [qr EXCEPT !.failed = TRUE, !.pc = "catch"]
    /\ UNCHANGED <<defaults, models, proto, order, op, ret, added, writes, builder, page>>

\* Variant of the SVG step used to test the properties: the step is left out.
QRToFileSvgLeftOut(outcome) ==
    /\ qr.pc = "svg"
    /\ qr' = [qr EXCEPT !.pc = "dataurl"]
    /\ UNCHANGED <<defaults, models, proto, order, op, ret, added, writes, builder, page>>

\* await QRCode.toFile(svgPath, url, { ...config.options, type: 'svg' })
QRToFileSvg(outcome) ==
    /\ qr.pc = "svg"
    /\ qr' = [AfterWrite(SvgPath(qr.outputFile), Artifact("svg", qr.url), outcome,
                         "svg version", "dataurl")
                EXCEPT !.calls = Append(@, <<"toFile", SvgPath(qr.outputFile), "svg", qr.url>>)]
    /\ UNCHANGED <<defaults, models, proto, order, op, ret, added, writes, builder, page>>

\* await QRCode.toDataURL(url, config.options)
QRToDataUrl(ok) ==
    /\ qr.pc = "dataurl"
    /\ qr' = [(IF ok THEN [qr EXCEPT !.pc = "html"]
               ELSE [qr EXCEPT !.failed = TRUE, !.pc = "catch"])
                EXCEPT !.calls = Append(@, <<"toDataURL", "", "png", qr.url>>)]
    /\ UNCHANGED <<defaults, models, proto, order, op, ret, added, writes, builder, page>>

\* fs.writeFileSync(htmlPath, htmlContent)
QRWriteHtml(outcome) ==
    /\ qr.pc = "html"
    /\ qr' = AfterWrite(HtmlPath(qr.outputFile), Artifact("html", qr.url), outcome,
                        "preview page", "complete")
    /\ UNCHANGED <<defaults, models, proto, order, op, ret, added, writes, builder, page>>

\* Variant of the catch block used to test the properties: the error is
\* printed and the process ends normally.
QRCatchNoExit ==
    /\ qr.pc = "catch"
    /\ qr' = [qr EXCEPT !.out = Append(@, "error"), !.pc = "end"]
    /\ UNCHANGED <<defaults, models, proto, order, op, ret, added, writes, builder, page>>

\* the "Complete!" lines
QRComplete ==
    /\ qr.pc = "complete"
    /\ qr' = [qr EXCEPT !.out = Append(@, "complete"), !.pc = "end"]
    /\ UNCHANGED <<defaults, models, proto, order, op, ret, added, writes, builder, page>>

\* catch (error) { console.error(...); process.exit(1); }
QRCatch ==
    /\ qr.pc = "catch"
    /\ qr' = [qr EXCEPT !.out = Append(@, "error"), !.exited = TRUE, !.code = 1,
                        !.pc = "exited"]
    /\ UNCHANGED <<defaults, models, proto, order, op, ret, added, writes, builder, page>>

\* nothing is left to run: the process ends with exit code 0
QREnd ==
    /\ qr.pc = "end"
    /\ qr' = [qr EXCEPT !.exited = TRUE, !.code = 0, !.pc = "exited"]
    /\ UNCHANGED <<defaults, models, proto, order, op, ret, added, writes, builder, page>>

QRInit ==
    /\ RegistryAtLoad
    /\ builder = NotRun
    /\ page = NotRun
    /\ \E args \in QRArgLists : qr = QRStart(args)

QRNext ==
    \/ QRMain
    \/ QRValidate
    \/ \E outcome \in WriteOutcomes : QRToFilePng(outcome)
    \/ \E ok \in BOOLEAN : QRStat(ok)
    \/ \E outcome \in WriteOutcomes : QRToFileSvg(outcome)
    \/ \E ok \in BOOLEAN : QRToDataUrl(ok)
    \/ \E outcome \in WriteOutcomes : QRWriteHtml(outcome)
    \/ QRComplete
    \/ QRCatch
    \/ QREnd

QRSpec == QRInit /\ [][QRNext]_vars

----------------------------------------------------------------------------
(* The add-model builder (src/unnamed/part_001).  Text is a sequence of
   pieces: the literal parts of a template and the interpolated values are
   pieces of their own, and the insertion marker is one piece, so a search
   for the marker is a search for the piece. *)

MaxRuns == 2

MarkerText == "// Template for adding new client models"

\* const scalePresets = { '1': ..., '6': ... }
scalePresets ==
    [k \in {"1", "2", "3", "4", "5", "6"} |->
        Obj([value |-> Str(CASE k = "1" -> "1 1 1"
                             [] k = "2" -> "0.5 0.5 0.5"
                             [] k = "3" -> "0.1 0.1 0.1"
                             [] k = "4" -> "0.05 0.05 0.05"
                             [] k = "5" -> "0.01 0.01 0.01"
                             [] k = "6" -> "custom")])]

\* scalePresets[key]: an own property, or what the object literal inherits
scalePresetsGet(key) ==
    IF key \in DOMAIN scalePresets THEN scalePresets[key]
    ELSE IF key = "__proto__" THEN ObjectPrototype
    ELSE ObjectPrototypeGet(key)

\* x.value
ValueOf(x) == IF x.t = "object" THEN x.v.value ELSE Undefined

\* s.toLowerCase(), over the answers below
ToLowerCase(s) ==
    CASE s = "Y" -> "y"
      [] s = "N" -> "n"
      [] s = "Yes" -> "yes"
      [] OTHER -> s

\* a || b on strings
OrElse(a, b) == IF a # "" THEN a ELSE b

\* The answers of one run, in the order of the questions.  posterFilename is
\* read only after "y" to hasPoster, customScale only after choosing the
\* custom preset.
TypicalAnswers ==
    [id |-> "chair", name |-> "Chair", description |-> "An oak chair",
     client |-> "Acme", filename |-> "chair.glb",
     hasPoster |-> "n", posterFilename |-> "",
     scaleChoice |-> "1", customScale |-> "",
     placement |-> "", projectDate |-> "", projectType |-> "Furniture",
     projectStatus |-> "", primaryColor |-> "", title |-> ""]

IdentityAnswers ==
    {[TypicalAnswers EXCEPT !.id = i, !.name = n, !.description = d] :
        i \in {"", "chair", "lamp"}, n \in {"", "Chair"},
        d \in {"An oak chair", MarkerText}}

PosterAnswers ==
    {[TypicalAnswers EXCEPT !.hasPoster = h, !.posterFilename = f] :
        h \in {"y", "Y"}, f \in {"", "chair.jpg"}}
    \cup {[TypicalAnswers EXCEPT !.hasPoster = h] : h \in {"", "N", "yes"}}

ScaleAnswers ==
    {[TypicalAnswers EXCEPT !.scaleChoice = c] :
        c \in {"", "3", "5", "7", "custom", "constructor"}}
    \cup {[TypicalAnswers EXCEPT !.scaleChoice = "6", !.customScale = c] :
            c \in {"", "2 2 2"}}

OptionalAnswers ==
    {[TypicalAnswers EXCEPT !.placement = "wall"],
     [TypicalAnswers EXCEPT !.projectDate = "2025"],
     [TypicalAnswers EXCEPT !.projectStatus = "Completed"],
     [TypicalAnswers EXCEPT !.primaryColor = "#ff0000"],
     [TypicalAnswers EXCEPT !.title = "The Chair"],
     [TypicalAnswers EXCEPT !.placement = "wall", !.projectDate = "2025",
                            !.projectStatus = "Completed",
                            !.primaryColor = "#ff0000", !.title = "The Chair"]}

Answers == IdentityAnswers \cup PosterAnswers \cup ScaleAnswers \cup OptionalAnswers

ConfirmAnswers == {"y", "Y", "n", "", "yes", "Yes"}

\* Variant of collectModelInfo used to test the properties: optional answers
\* are taken as entered.
collectModelInfoAsEntered(a) ==
    [id |-> a.id, name |-> a.name, description |-> a.description,
     client |-> a.client, filename |-> a.filename,
     posterFilename |-> a.posterFilename,
     arScale |-> Str("1 1 1"),
     placement |-> a.placement, projectDate |-> a.projectDate,
     projectType |-> a.projectType, projectStatus |-> a.projectStatus,
     primaryColor |-> a.primaryColor, title |-> a.title]

collectModelInfo(a) ==
    LET preset == scalePresetsGet(a.scaleChoice)
    IN  [id |-> a.id,
         name |-> a.name,
         description |-> a.description,
         client |-> a.client,
         filename |-> a.filename,
         posterFilename |->
            IF ToLowerCase(a.hasPoster) = "y" THEN a.posterFilename ELSE "",
         arScale |->
            IF Truthy(preset)
            THEN (IF ValueOf(preset) = Str("custom") THEN Str(a.customScale)
                  ELSE ValueOf(preset))
            ELSE Str("1 1 1"),
         placement |-> OrElse(a.placement, "floor"),
         projectDate |-> OrElse(a.projectDate, "2024"),
         projectType |-> a.projectType,
         projectStatus |-> OrElse(a.projectStatus, "Active"),
         primaryColor |-> OrElse(a.primaryColor, "#4285f4"),
         title |-> OrElse(a.title, a.name)]

generateGradient(primaryColor) ==
    LET darker == primaryColor \o "20"
    IN  "linear-gradient(135deg, " \o primaryColor \o " 0%, " \o darker \o " 100%)"

\* ${info.posterFilename ? `poster: "./models/${info.posterFilename}",` : 'poster: "",'}
PosterLine(info) ==
    IF info.posterFilename # ""
    THEN << "poster: \"./models/", info.posterFilename, "\"," >>
    ELSE << "poster: \"\"," >>

generateModelConfig(info) ==
        << "\n        // ",
           info.name,
           " - ",
           info.client,
           "\n        \"",
           info.id,
           "\": {\n            id: \"",
           info.id,
           "\",\n            name: \"",
           info.name,
           "\",\n            description: \"",
           info.description,
           "\",\n            client: \"",
           info.client,
           "\",\n            \n            // File paths\n            src: \"./models/",
           info.filename,
           "\",\n            " >>
     \o PosterLine(info)
     \o << "\n            \n            // AR-specific settings\n            arScale: \"",
           ToPropertyKey(info.arScale),
           "\",\n            arPlacement: \"",
           info.placement,
           "\",\n            \n            // Display settings\n            autoRotate: true,\n            rotationSpeed: \"30deg\",\n            cameraOrbit: \"0deg 75deg 105%\",\n            \n            // Client information\n            projectInfo: {\n                date: \"",
           info.projectDate,
           "\",\n                type: \"",
           info.projectType,
           "\",\n                status: \"",
           info.projectStatus,
           "\"\n            },\n            \n            // Custom styling\n            theme: {\n                primaryColor: \"",
           info.primaryColor,
           "\",\n                backgroundColor: \"",
           generateGradient(info.primaryColor),
           "\",\n                title: \"",
           info.title,
           "\"\n            }\n        }," >>

\* the text put between the new record and the marker
Separator == "\n\n        "

\* content.indexOf(text): position of the first occurrence, -1 if none
IndexOf(content, text) ==
    IF \E i \in 1..Len(content) : content[i] = text
    THEN (CHOOSE i \in 1..Len(content) :
            /\ content[i] = text
            /\ \A j \in 1..(i - 1) : content[j] # text) - 1
    ELSE 0 - 1

\* content.substring(from, to) and content.substring(from)
Substring(content, from, to) == SubSeq(content, from + 1, to)
SubstringFrom(content, from) == SubSeq(content, from + 1, Len(content))

\* models.js before the builder's first run
HeadText == "const ModelManager = { defaults: {...}, models: { \"terraced-scene\": {...},\n\n        "
TailText == "\n        \"client-model-template\": {...}\n    }, ... };"
FileAbsent == [exists |-> FALSE, readable |-> FALSE, content |-> <<>>]
FileOf(content) == [exists |-> TRUE, readable |-> TRUE, content |-> content]
FilesAtStart ==
    {FileAbsent,
     [exists |-> TRUE, readable |-> FALSE, content |-> <<HeadText, MarkerText, TailText>>],
     FileOf(<<HeadText, TailText>>),
     FileOf(<<HeadText, MarkerText, TailText>>)}

\* One run of the builder is one process; the file models.js stays between
\* runs.  builder.file is models.js, builder.file0 the file before the first
\* run and builder.fileAtStart the file when the current run started;
\* builder.inserted lists, in order, the runs whose write succeeded (the
\* answers, the info and the record text); builder.out are the messages.
BuilderStart(file) ==
    [pc |-> "collect",
     run |-> 1,
     file |-> file,
     file0 |-> file,
     fileAtStart |-> file,
     answers |-> TypicalAnswers,
     info |-> collectModelInfo(TypicalAnswers),
     asked |-> FALSE,
     confirm |-> "",
     persisted |-> "not tried",
     threw |-> FALSE,
     inserted |-> <<>>,
     out |-> <<>>]

\* const info = await collectModelInfo(); and the summary
CollectModelInfo(a) ==
    /\ builder.pc = "collect"
    /\ builder' = [builder EXCEPT !.answers = a,
                                  !.info = collectModelInfo(a),
                                  !.out = Append(@, "summary"),
                                  !.pc = "confirm"]
    /\ UNCHANGED <<defaults, models, proto, order, op, ret, added, writes, qr, page>>

\* Variant of the confirmation used to test the properties: every answer
\* but "n" confirms.
ConfirmUnlessNo(answer) ==
    /\ builder.pc = "confirm"
    /\ builder' = IF ToLowerCase(answer) # "n"
                  THEN [builder EXCEPT !.asked = TRUE, !.confirm = answer,
                                       !.pc = "persist"]
                  ELSE [builder EXCEPT !.asked = TRUE, !.confirm = answer,
                                       !.out = Append(@, "cancelled"),
                                       !.pc = "close"]
    /\ UNCHANGED <<defaults, models, proto, order, op, ret, added, writes, qr, page>>

\* const confirm = await question(...); if (confirm.toLowerCase() === 'y')
Confirm(answer) ==
    /\ builder.pc = "confirm"
    /\ builder' = IF ToLowerCase(answer) = "y"
                  THEN [builder EXCEPT !.asked = TRUE, !.confirm = answer,
                                       !.pc = "persist"]
                  ELSE [builder EXCEPT !.asked = TRUE, !.confirm = answer,
                                       !.out = Append(@, "cancelled"),
                                       !.pc = "close"]
    /\ UNCHANGED <<defaults, models, proto, order, op, ret, added, writes, qr, page>>

\* Variant of addModelToConfig used to test the properties: a file without
\* the marker gets the record appended.
addModelToConfigAppends(modelConfig) ==
    IF ~builder.file.exists
    THEN [builder EXCEPT !.out = @ \o <<"models.js file not found", "failed">>,
                         !.persisted = "false", !.pc = "close"]
    ELSE IF ~builder.file.readable
    THEN [builder EXCEPT !.out = Append(@, "error"), !.threw = TRUE, !.pc = "close"]
    ELSE [builder EXCEPT
            !.file.content = @ \o modelConfig \o <<Separator>>,
            !.out = Append(@, "added"), !.persisted = "true", !.pc = "close"]

\* addModelToConfig(modelConfig) and what main prints for its result; a
\* throw of readFileSync lands in main's catch block
addModelToConfig(modelConfig) ==
    IF ~builder.file.exists
    THEN [builder EXCEPT !.out = @ \o <<"models.js file not found", "failed">>,
                         !.persisted = "false", !.pc = "close"]
    ELSE IF ~builder.file.readable
    THEN [builder EXCEPT !.out = Append(@, "error"), !.threw = TRUE, !.pc = "close"]
    ELSE LET content == builder.file.content
             insertPoint == IndexOf(content, MarkerText)
             beforeInsert == Substring(content, 0, insertPoint)
             afterInsert == SubstringFrom(content, insertPoint)
             newContent == beforeInsert \o modelConfig \o <<Separator>> \o afterInsert
         IN  IF insertPoint = 0 - 1
             THEN [builder EXCEPT
                     !.out = @ \o <<"could not find insertion point", "failed">>,
                     !.persisted = "false", !.pc = "close"]
             ELSE [builder EXCEPT
                     !.file.content = newContent,
                     !.inserted = Append(@, [answers |-> builder.answers,
                                             info |-> builder.info,
                                             text |-> modelConfig]),
                     !.out = Append(@, "added"),
                     !.persisted = "true", !.pc = "close"]

\* const modelConfig = generateModelConfig(info);
\* if (await addModelToConfig(modelConfig)) ... else ...
Persist ==
    /\ builder.pc = "persist"
    /\ builder' = addModelToConfig(generateModelConfig(builder.info))
    /\ UNCHANGED <<defaults, models, proto, order, op, ret, added, writes, qr, page>>

\* finally { rl.close(); }: the run is over
Close ==
    /\ builder.pc = "close"
    /\ builder' = [builder EXCEPT !.pc = "closed"]
    /\ UNCHANGED <<defaults, models, proto, order, op, ret, added, writes, qr, page>>

\* the tool is started again on the same directory
RunAgain ==
    /\ builder.pc = "closed"
    /\ builder.run < MaxRuns
    /\ builder' = [builder EXCEPT !.pc = "collect", !.run = @ + 1,
                                  !.fileAtStart = builder.file,
                                  !.asked = FALSE, !.confirm = "",
                                  !.persisted = "not tried", !.threw = FALSE,
                                  !.out = <<>>]
    /\ UNCHANGED <<defaults, models, proto, order, op, ret, added, writes, qr, page>>

BuilderInit ==
    /\ RegistryAtLoad
    /\ qr = NotRun
    /\ page = NotRun
    /\ \E file \in FilesAtStart : builder = BuilderStart(file)

BuilderNext ==
    \/ \E a \in Answers : CollectModelInfo(a)
    \/ \E answer \in ConfirmAnswers : Confirm(answer)
    \/ Persist
    \/ Close
    \/ RunAgain

BuilderSpec == BuilderInit /\ [][BuilderNext]_vars

----------------------------------------------------------------------------
(* The application configuration (src/AR/config.js).  page.config is the
   ARConfig object as the page's author has edited it, page.viewer the
   element with id "model-viewer" (its properties and attributes),
   page.text the text of the elements the handler updates, page.viewer0 the
   viewer as the markup created it, page.wrote the attribute and property
   writes the handler made, in order. *)

\* ARConfig as written in config.js (the fields the handler reads)
ARConfig ==
    [model |-> [src |-> "./models/TerracedScene.glb", poster |-> "",
                alt |-> "Terraced Scene 3D Model for AR viewing"],
     ar |-> [modes |-> <<"webxr", "scene-viewer", "quick-look">>,
             arScale |-> "auto auto auto"],
     interaction |-> [cameraControls |-> TRUE, autoRotate |-> TRUE,
                      autoRotateDelay |-> Num(1000),
                      rotationPerSecond |-> "40deg"],
     appearance |-> [environmentImage |-> "neutral", exposure |-> Num(1),
                     shadowIntensity |-> Num(1)],
     ui |-> [title |-> "AR Model Viewer",
             subtitle |-> "Tap the AR button to view in your space",
             arButtonText |-> "View in AR",
             instructions |-> <<"Tap \"View in AR\" button",
                                "Point your camera at a flat surface">>]]

\* Configurations: config.js as it is, and with fields edited
ModeLists ==
    {<<"webxr", "scene-viewer", "quick-look">>, <<"quick-look", "webxr">>,
     <<"webxr">>, <<>>}

Configs ==
    {[ARConfig EXCEPT !.interaction.cameraControls = c,
                      !.interaction.autoRotate = r,
                      !.ar.modes = m] :
        c \in BOOLEAN, r \in BOOLEAN, m \in ModeLists}
    \cup {[ARConfig EXCEPT !.model.src = "./models/chair.glb",
                           !.model.poster = "./models/chair.jpg",
                           !.model.alt = "Chair",
                           !.ar.arScale = "fixed",
                           !.interaction.autoRotate = r,
                           !.interaction.autoRotateDelay = Num(3000),
                           !.appearance.environmentImage = "studio",
                           !.appearance.exposure = Num(2),
                           !.appearance.shadowIntensity = Num(0),
                           !.ui.instructions = i] :
            r \in BOOLEAN, i \in {<<>>, <<"Tap to place the 3D model">>}}

\* String(value), as setAttribute and textContent convert their argument
ToDOMString(x) == IF x.t = "number" THEN NatToString(x.v) ELSE x.v

\* array.join(separator)
RECURSIVE Join(_, _)
Join(list, separator) ==
    IF list = <<>> THEN ""
    ELSE IF Len(list) = 1 THEN list[1]
    ELSE list[1] \o separator \o Join(Tail(list), separator)

\* ARConfig.ui.instructions.map((instruction, index) => `${index + 1}. ${instruction}`)
Numbered(list) == [i \in 1..Len(list) |-> NatToString(i) \o ". " \o list[i]]

NoAttributes == [n \in {} |-> ""]

\* The element with id "model-viewer" as the page's markup creates it: no
\* such element, an element with only its source, and the element of the
\* README's advanced configuration.
NoElement == [present |-> FALSE, props |-> NoAttributes, attrs |-> NoAttributes]
PlainViewer ==
    [present |-> TRUE,
     props |-> [n \in {"src"} |-> "model.glb"],
     attrs |-> [n \in {"ar"} |-> ""]]
ReadmeViewer ==
    [present |-> TRUE,
     props |-> [n \in {"src"} |-> "model.glb"],
     attrs |-> [n \in {"ar", "ar-modes", "camera-controls", "touch-action",
                       "auto-rotate", "auto-rotate-delay", "rotation-per-second",
                       "shadow-intensity", "exposure", "environment-image"} |->
                  CASE n = "ar-modes" -> "webxr scene-viewer quick-look"
                    [] n = "touch-action" -> "pan-y"
                    [] n = "auto-rotate-delay" -> "3000"
                    [] n = "rotation-per-second" -> "30deg"
                    [] n = "shadow-intensity" -> "1"
                    [] n = "exposure" -> "1"
                    [] n = "environment-image" -> "neutral"
                    [] OTHER -> ""]]
ViewersAtLoad == {NoElement, PlainViewer, ReadmeViewer}

\* The elements matched by 'h1', '.subtitle', '#ar-button', '.instructions'
\* and their text in the markup; an element that is missing has no entry.
TextSelectors == {"h1", ".subtitle", "#ar-button", ".instructions"}
TextsAtLoad ==
    {[n \in present |-> "markup text"] :
        present \in {{}, {"h1"}, {"h1", ".subtitle", "#ar-button"}, TextSelectors}}

PageStart(config, viewer, text) ==
    [pc |-> "loading", config |-> config, viewer |-> viewer, viewer0 |-> viewer,
     text |-> text, wrote |-> <<>>]

\* One write to the viewer: a property assignment or a setAttribute call
Write(kind, name, value) == [kind |-> kind, name |-> name, value |-> value]

\* Variant of the writes used to test the properties: camera-controls is
\* set whatever the configuration says.
WritesAlwaysControls(config) ==
       << Write("prop", "src", config.model.src),
          Write("prop", "poster", config.model.poster),
          Write("prop", "alt", config.model.alt),
          Write("attr", "ar-modes", Join(config.ar.modes, " ")),
          Write("attr", "ar-scale", config.ar.arScale),
          Write("attr", "camera-controls", "") >>
    \o << Write("attr", "environment-image", config.appearance.environmentImage),
          Write("attr", "exposure", ToDOMString(config.appearance.exposure)),
          Write("attr", "shadow-intensity", ToDOMString(config.appearance.shadowIntensity)) >>

\* The writes the handler makes to the viewer, in the order of the code
Writes(config) ==
       << Write("prop", "src", config.model.src),
          Write("prop", "poster", config.model.poster),
          Write("prop", "alt", config.model.alt),
          Write("attr", "ar-modes", Join(config.ar.modes, " ")),
          Write("attr", "ar-scale", config.ar.arScale) >>
    \o (IF config.interaction.cameraControls
        THEN << Write("attr", "camera-controls", "") >>
        ELSE << >>)
    \o (IF config.interaction.autoRotate
        THEN << Write("attr", "auto-rotate", ""),
                Write("attr", "auto-rotate-delay",
                      ToDOMString(config.interaction.autoRotateDelay)),
                Write("attr", "rotation-per-second",
                      config.interaction.rotationPerSecond) >>
        ELSE << >>)
    \o << Write("attr", "environment-image", config.appearance.environmentImage),
          Write("attr", "exposure", ToDOMString(config.appearance.exposure)),
          Write("attr", "shadow-intensity", ToDOMString(config.appearance.shadowIntensity)) >>

\* map with name set to value, whether or not it had the name
With(map, name, value) ==
    [n \in DOMAIN map \cup {name} |-> IF n = name THEN value ELSE map[n]]

\* the viewer after one write
ApplyWrite(viewer, w) ==
    IF w.kind = "prop"
    THEN [viewer EXCEPT !.props = With(@, w.name, w.value)]
    ELSE [viewer EXCEPT !.attrs = With(@, w.name, w.value)]

\* the viewer after the writes, first to last
RECURSIVE ApplyAll(_, _)
ApplyAll(viewer, ws) ==
    IF ws = <<>> THEN viewer
    ELSE ApplyAll(ApplyWrite(viewer, Head(ws)), Tail(ws))

\* The text updates: each element that exists gets its text; the
\* instructions only when the list is not empty
UpdateText(text, config) ==
    [n \in DOMAIN text |->
        CASE n = "h1" -> config.ui.title
          [] n = ".subtitle" -> config.ui.subtitle
          [] n = "#ar-button" -> config.ui.arButtonText
          [] n = ".instructions" ->
                IF Len(config.ui.instructions) > 0
                THEN "<strong>How to use:</strong><br>"
                        \o Join(Numbered(config.ui.instructions), "<br>")
                ELSE text[n]]

\* The DOMContentLoaded listener
DOMContentLoaded ==
    /\ page.pc = "loading"
    /\ page' = IF page.viewer.present
               THEN [page EXCEPT !.viewer = ApplyAll(@, Writes(page.config)),
                                 !.wrote = Writes(page.config),
                                 !.text = UpdateText(@, page.config),
                                 !.pc = "ready"]
               ELSE [page EXCEPT !.pc = "ready"]
    /\ UNCHANGED <<defaults, models, proto, order, op, ret, added, writes, qr, builder>>

PageInit ==
    /\ RegistryAtLoad
    /\ qr = NotRun
    /\ builder = NotRun
    /\ \E config \in Configs, viewer \in ViewersAtLoad, text \in TextsAtLoad :
            page = PageStart(config, viewer, text)

PageNext == DOMContentLoaded

PageSpec == PageInit /\ [][PageNext]_vars

----------------------------------------------------------------------------
(* Properties *)

Elements(array) == {array.v[i] : i \in 1..Len(array.v)}

\* C1: getModel of an identifier stored in the registry returns the shallow
\* merge of defaults and the record: every key of the record carries the
\* record's value (nested objects whole), every key only defaults has carries
\* the default, and there is no other key.
C1_GetModelIsShallowMerge ==
    (op.name = "getModel" /\ op.id \in DOMAIN models) =>
        LET record == models[op.id].v
            d == defaults.v
        IN  /\ ret.t = "object"
            /\ DOMAIN ret.v = DOMAIN d \cup DOMAIN record
            /\ \A k \in DOMAIN record : ret.v[k] = record[k]
            /\ \A k \in DOMAIN d \ DOMAIN record : ret.v[k] = d[k]

\* C1 witness: the table's terraced-scene record was fetched; its arScale
\* and whole theme are the record's, its exposure is the default.
C1_Witness ==
    /\ op.name = "getModel" /\ op.id = "terraced-scene"
    /\ models["terraced-scene"] = TerracedScene
    /\ ret.v["arScale"] = Str("0.1 0.1 0.1")
    /\ ret.v["theme"] = TerracedScene.v["theme"]
    /\ ret.v["exposure"] = defaults.v["exposure"]

\* C2: getModel of an identifier with no record in the registry returns null.
C2_UnknownLookupReturnsNull ==
    (op.name = "getModel" /\ op.id \notin DOMAIN models) => ret = Null

\* C3: getAllModels never returns a record whose id is the template
\* sentinel, nor the record stored under the sentinel key, whatever addModel
\* has stored.
C3_ListExcludesTemplate ==
    op.name = "getAllModels" =>
        \A e \in Elements(ret) :
            /\ IdOf(e) # Str(TemplateId)
            /\ TemplateId \in DOMAIN models => e # models[TemplateId]

\* C3 witness: the list was taken after addModel stored a record under the
\* sentinel id, and it is not empty.
C3_Witness ==
    /\ op.name = "getAllModels"
    /\ TemplateId \in DOMAIN added
    /\ models[TemplateId] = added[TemplateId].model
    /\ Len(ret.v) >= 1

\* C4: every element of getAllModels equals getModel of its id.
C4_ListConsistentWithGet ==
    op.name = "getAllModels" =>
        \A e \in Elements(ret) : e = getModel(ToPropertyKey(IdOf(e)))

\* C5: addModel stores defaults merged with the record under record.id as an
\* entry of the table, replacing a prior entry whole, returns what it stored
\* and leaves every other entry as it was.
IsAddModelStep == op'.name = "addModel" /\ writes' = writes + 1

AddModelStoresMerged(key) ==
    LET record == op'.cfg.v
        d == defaults.v
    IN  /\ DOMAIN ret'.v = DOMAIN d \cup DOMAIN record
        /\ \A k \in DOMAIN record : ret'.v[k] = record[k]
        /\ \A k \in DOMAIN d \ DOMAIN record : ret'.v[k] = d[k]
        /\ DOMAIN models' = DOMAIN models \cup {key}
        /\ models'[key] = ret'
        /\ \A k \in DOMAIN models \ {key} : models'[k] = models[k]

C5_AddModelStoresUnderId ==
    [][IsAddModelStep => AddModelStoresMerged(ToPropertyKey(IdOf(op'.cfg)))]_vars

\* The same, for every record id but "__proto__".
AddModelStoresUnlessProto ==
    [][(IsAddModelStep /\ IdOf(op'.cfg) # Str("__proto__")) =>
            AddModelStoresMerged(ToPropertyKey(IdOf(op'.cfg)))]_vars

\* C6: while defaults are what they were when addModel(R) ran, and no later
\* addModel for R.id has run, getModel(R.id) returns the merge that addModel
\* computed and returned.
C6_GetAfterAddIsInsertedMerge ==
    /\ \A x \in DOMAIN added :
            added[x].defaults = defaults => getModel(x) = added[x].model
    /\ (op.name = "getModel" /\ op.id \in DOMAIN added
            /\ added[op.id].defaults = defaults) => ret = added[op.id].model

\* C6 witness: scenario A, the chair fetched after it was added.
C6_Witness ==
    /\ op.name = "getModel" /\ op.id = "chair"
    /\ "chair" \in DOMAIN added /\ added["chair"].defaults = defaults
    /\ ret.v["id"] = Str("chair") /\ ret.v["src"] = Str("chair.glb")
    /\ ret.v["arScale"] = Str("1 1 1") /\ ret.v["arPlacement"] = Str("floor")

\* The records a merge is applied to in a state: the inputs of addModel,
\* the stored records and the last result.
MergeOperands ==
    AddInputs \cup {models[k] : k \in DOMAIN models}
              \cup (IF ret.t = "object" THEN {ret} ELSE {})

\* C7: merging is idempotent, merge(D, merge(D, R)) = merge(D, R), for the
\* defaults D of every reachable state and every record R; and adding again a
\* record that is already a merge with defaults returns, stores and yields on
\* lookup that same record.
C7_MergeIdempotent ==
    /\ \A R \in MergeOperands :
            Spread(defaults, Spread(defaults, R)) = Spread(defaults, R)
    /\ (op.name = "addModel" /\ \E R \in AddInputs : op.cfg = Spread(defaults, R)) =>
            /\ ret = op.cfg
            /\ ModelsGet(op.id) = op.cfg
            /\ getModel(op.id) = op.cfg

\* C7 witness: the chair record returned by addModel was added again.
C7_Witness ==
    /\ op.name = "addModel" /\ op.id = "chair"
    /\ op.cfg # ChairCfg /\ op.cfg = Spread(defaults, ChairCfg)
    /\ "exposure" \in DOMAIN op.cfg.v

IsChangeDefaultsStep == op'.name = "changeDefaults" /\ writes' = writes + 1

\* Keys never passed through addModel: records of the initial table only.
TableOnlyKeys == DOMAIN models \ DOMAIN added

\* getModel reflects a change of defaults[op'.id] for the table-only records
\* that do not override that key.
TableRecordsFollowDefaults ==
    \A x \in TableOnlyKeys :
        op'.id \notin DOMAIN models[x].v => getModel(x)'.v[op'.id] = op'.cfg

\* C8: a change to defaults after addModel(R) leaves getModel(R.id) as it
\* was, while getModel of a record that is only in the initial table shows the
\* changed default for every key the record does not override.
C8_DefaultsChangeNotRetroactive ==
    [][IsChangeDefaultsStep =>
            /\ \A x \in DOMAIN added : getModel(x)' = getModel(x)
            /\ TableRecordsFollowDefaults]_vars

\* C8 as amended: for an added record the change is invisible in every key
\* the stored merge has (the keys of R and of defaults at insertion), so
\* getModel(R.id) is unchanged when the changed key is one of them; a key the
\* stored merge lacks, newly added to defaults, does appear in getModel(R.id).
\* The table-only records follow defaults as claimed.
C8_DefaultsChangeHiddenForStoredKeys ==
    [][IsChangeDefaultsStep =>
            /\ \A x \in DOMAIN added :
                    /\ \A k \in DOMAIN added[x].model.v :
                            getModel(x)'.v[k] = getModel(x).v[k]
                    /\ op'.id \in DOMAIN added[x].model.v =>
                            getModel(x)' = getModel(x)
                    /\ op'.id \notin DOMAIN added[x].model.v =>
                            getModel(x)'.v[op'.id] = op'.cfg
            /\ TableRecordsFollowDefaults]_vars

\* C8 witness: arScale of defaults was changed after the chair was added and
\* while terraced-scene was still the table's record; the chair keeps the
\* arScale merged at insertion.
C8_Witness ==
    /\ op.name = "changeDefaults" /\ op.id = "arScale"
    /\ "chair" \in DOMAIN added /\ "terraced-scene" \in TableOnlyKeys
    /\ getModel("chair").v["arScale"] = Str("1 1 1")
    /\ defaults.v["arScale"] = Str("2 2 2")

RegistryCalls == {"getModel", "getAllModels", "addModel", "getModelUrl", "getQRUrl"}

\* C9: no call of getModel, getAllModels, addModel, getModelUrl or getQRUrl
\* changes defaults: keys and values stay what they were before the call.
C9_RegistryNeverMutatesDefaults ==
    [][op'.name \in RegistryCalls => defaults' = defaults]_vars

\* C9 witness: after two addModel calls and a lookup, defaults are those of
\* the start.
C9_Witness ==
    /\ op.name = "getModel" /\ ret.t = "object"
    /\ Cardinality(DOMAIN added) = 2
    /\ defaults = DefaultsAtStart

\* C10: getModel (found or not), getAllModels, getModelUrl and getQRUrl leave
\* the table as it was: the same keys in the same order, the same records, the
\* same prototype.
C10_OnlyAddModelMutatesModels ==
    [][op'.name \in RegistryCalls \ {"addModel"} =>
            /\ models' = models
            /\ order' = order
            /\ proto' = proto]_vars

\* C10 witness: a lookup that found nothing, made after addModel had changed
\* the table.
C10_Witness ==
    /\ op.name = "getModel" /\ ret = Null
    /\ models # ModelsAtStart

\* C11: getModelUrl returns the base URL (the empty string when the argument
\* is omitted), then "model.html?id=", then the id, for registered and
\* unregistered ids alike; getQRUrl returns the same string for the same
\* arguments.
C11_ModelUrlFormat ==
    /\ op.name \in {"getModelUrl", "getQRUrl"} =>
            ret = Str((IF op.base = Undefined THEN "" ELSE op.base.v)
                        \o "model.html?id=" \o op.id)
    /\ (op.name \in {"getModelUrl", "getQRUrl"} /\ op.id = "terraced-scene"
            /\ op.base = Str("https://example.com/")) =>
            ret = Str("https://example.com/model.html?id=terraced-scene")
    /\ \A modelId \in UrlIds, baseUrl \in BaseUrls :
            getQRUrl(modelId, baseUrl) = getModelUrl(modelId, baseUrl)

\* C11 witness: getQRUrl of an unregistered id with the base omitted.
C11_Witness ==
    /\ op.name = "getQRUrl" /\ op.id = "nonexistent-id" /\ op.base = Undefined
    /\ "nonexistent-id" \notin DOMAIN models
    /\ ret = Str("model.html?id=nonexistent-id")

\* C12: fromMeters yields the same number three times, separated by single
\* spaces; fromCentimeters(cm) is fromMeters(cm / 100), so
\* fromCentimeters(100) is fromMeters(1); fromFeet(ft) is
\* fromMeters(ft * 0.3048).
C12_ScaleConversions ==
    /\ op.name = "fromMeters" =>
            LET axis == NumberToString(op.cfg.v)
            IN  ret = Str(axis \o " " \o axis \o " " \o axis)
    /\ op.name = "fromCentimeters" => ret = fromMeters(op.cfg.v \div 100)
    /\ op.name = "fromFeet" =>
            ret = fromMeters((op.cfg.v * MetersPerFoot) \div 10000)
    /\ (op.name = "fromCentimeters" /\ op.cfg.v = 10000000) =>
            ret = fromMeters(100000) /\ ret = Str("1 1 1")
    /\ (op.name = "fromCentimeters" /\ op.cfg.v = 250000) =>
            ret = Str("0.025 0.025 0.025")
    /\ (op.name = "fromFeet" /\ op.cfg.v = 100000) =>
            ret = fromMeters(30480) /\ ret = Str("0.3048 0.3048 0.3048")
    /\ (op.name = "fromMeters" /\ op.cfg.v = 10000) =>
            ret = ScalePresets.architectural

\* C12 witness: fromCentimeters(100) was called and gave "1 1 1".
C12_Witness ==
    /\ op.name = "fromCentimeters" /\ op.cfg.v = 10000000
    /\ ret = Str("1 1 1")

\* C13: a run whose URL fails URL parsing makes no call to the encoder and
\* writes none of the artifacts, at any point of the run.
C13_InvalidUrlRejectedBeforeEncoding ==
    (qr.pc # "not run" /\ ~isValidUrl(qr.url)) =>
        /\ qr.calls = <<>>
        /\ qr.written = <<>>
        /\ DOMAIN qr.files = {}

C13_Witness ==
    /\ qr.pc = "exited"
    /\ qr.attempted
    /\ qr.url = "not a url"
    /\ qr.failed

\* C14 as stated: a run that has ended with an invalid URL or a failed step
\* has a non-zero exit code.
C14_NonZeroExitWheneverInvalidOrFailed ==
    (qr.pc = "exited" /\ (~isValidUrl(qr.url) \/ qr.failed)) => qr.code # 0

\* C14: once generation has been started (no help flag among the arguments),
\* an invalid URL or the first step that throws sends the run to the catch
\* block with no further step, the catch block can run, and the exit code
\* is 1.
C14_NonZeroExitWhenGenerationFails ==
    (qr.pc # "not run" /\ qr.attempted /\ (~isValidUrl(qr.url) \/ qr.failed)) =>
        /\ qr.pc \in {"validate", "catch", "exited"}
        /\ qr.pc = "catch" => ENABLED QRCatch
        /\ qr.pc = "exited" => qr.code = 1

C14_Witness ==
    /\ qr.pc = "exited"
    /\ qr.failed
    /\ Len(qr.calls) = 3
    /\ qr.code = 1

PersistenceRan ==
    /\ builder.pc \in {"close", "closed"}
    /\ builder.asked
    /\ ToLowerCase(builder.confirm) = "y"

\* C16: when models.js is absent, or present without the insertion marker,
\* the persistence step returns false ("failed" is reported) without
\* throwing, and models.js is as it was when the run started.
C16_MissingFileOrMarkerFailsWithoutWriting ==
    (builder.pc # "not run" /\ PersistenceRan /\
     (\/ ~builder.fileAtStart.exists
      \/ /\ builder.fileAtStart.readable
         /\ IndexOf(builder.fileAtStart.content, MarkerText) = 0 - 1)) =>
        /\ builder.persisted = "false"
        /\ ~builder.threw
        /\ builder.out[Len(builder.out)] = "failed"
        /\ builder.file = builder.fileAtStart
        /\ builder.inserted = <<>>

C16_Witness ==
    /\ builder.pc = "closed"
    /\ PersistenceRan
    /\ builder.fileAtStart = FileOf(<<HeadText, TailText>>)
    /\ builder.persisted = "false"

\* the record texts, each followed by the separator, one after the other
RECURSIVE Joined(_)
Joined(records) ==
    IF records = <<>> THEN <<>>
    ELSE records[1].text \o <<Separator>> \o Joined(Tail(records))

\* Every step that changes models.js puts one record text and the separator
\* where the first marker was, and keeps the text before it and the text
\* from it onward.
SplicePreservesBeforeAndAfter ==
    [][(builder.pc # "not run" /\ builder'.file # builder.file) =>
         LET content == builder.file.content
             insertPoint == IndexOf(content, MarkerText)
             record == generateModelConfig(builder.info)
             n == Len(record) + 1
         IN  /\ insertPoint >= 0
             /\ Substring(builder'.file.content, 0, insertPoint)
                  = Substring(content, 0, insertPoint)
             /\ Substring(builder'.file.content, insertPoint, insertPoint + n)
                  = record \o <<Separator>>
             /\ SubstringFrom(builder'.file.content, insertPoint + n)
                  = SubstringFrom(content, insertPoint)]_vars

\* C17: after any sequence of successful insertions models.js is the text
\* that was before the marker, then every inserted record in insertion
\* order, then the marker and the text that followed it.
C17_InsertionsKeepRecordsInOrder ==
    (builder.pc # "not run" /\ builder.inserted # <<>>) =>
        LET start == builder.file0.content
            insertPoint == IndexOf(start, MarkerText)
        IN  builder.file.content =
                Substring(start, 0, insertPoint) \o Joined(builder.inserted)
                    \o SubstringFrom(start, insertPoint)

\* C18: an answer to the confirmation prompt other than "y" or "Y" cancels
\* the add with models.js as it was when the run started, and models.js
\* differs from what it was at the start of a run only after "y" or "Y".
C18_OnlyConfirmedRunsWrite ==
    builder.pc # "not run" =>
        /\ (builder.asked /\ builder.confirm \notin {"y", "Y"}) =>
              /\ builder.pc \in {"close", "closed"}
              /\ builder.persisted = "not tried"
              /\ builder.out[Len(builder.out)] = "cancelled"
              /\ builder.file = builder.fileAtStart
        /\ builder.file # builder.fileAtStart =>
              (builder.asked /\ builder.confirm \in {"y", "Y"})

C18_Witness ==
    /\ builder.pc = "closed"
    /\ builder.asked
    /\ builder.confirm = "yes"
    /\ IndexOf(builder.file.content, MarkerText) >= 0
    /\ builder.file.readable

\* C19: a run in which the id entered is the empty string never reaches the
\* persistence step, and no inserted record has an empty id.
C19_EmptyIdNeverInserted ==
    builder.pc # "not run" =>
        /\ (builder.pc # "collect" /\ builder.answers.id = "") =>
              (builder.pc # "persist" /\ builder.persisted = "not tried")
        /\ \A i \in 1..Len(builder.inserted) : builder.inserted[i].info.id # ""

\* C20: in the collected info each of placement, project date, project
\* status, primary color and title is the answer when the answer is not
\* empty, and otherwise "floor", "2024", "Active", "#4285f4" and the model
\* name; the poster of the info and of the record text is empty unless
\* the answer to the poster question was "y" or "Y", and then it is the
\* file name entered.
C20_BuilderDefaults ==
    (builder.pc \notin {"not run", "collect"}) =>
        LET a == builder.answers
            info == builder.info
            Chosen(entered, default) == IF entered = "" THEN default ELSE entered
        IN  /\ info.placement = Chosen(a.placement, "floor")
            /\ info.projectDate = Chosen(a.projectDate, "2024")
            /\ info.projectStatus = Chosen(a.projectStatus, "Active")
            /\ info.primaryColor = Chosen(a.primaryColor, "#4285f4")
            /\ info.title = Chosen(a.title, a.name)
            /\ a.hasPoster \notin {"y", "Y"} =>
                  /\ info.posterFilename = ""
                  /\ PosterLine(info) = << "poster: \"\"," >>
            /\ a.hasPoster \in {"y", "Y"} => info.posterFilename = a.posterFilename

C20_Witness ==
    /\ builder.pc = "closed"
    /\ builder.persisted = "true"
    /\ builder.answers.placement = ""
    /\ builder.answers.primaryColor = "#ff0000"
    /\ builder.info.placement = "floor"
    /\ builder.info.title = "Chair"

\* C21: the arScale of the collected info is the preset string of the choice
\* for the choices "1" to "5", the custom string entered for the choice "6",
\* and "1 1 1" for every other answer; it is never the literal "custom".
C21_ScaleSelection ==
    (builder.pc \notin {"not run", "collect"}) =>
        LET choice == builder.answers.scaleChoice
            arScale == builder.info.arScale
        IN  /\ choice \in {"1", "2", "3", "4", "5"} =>
                  arScale = scalePresets[choice].v.value
            /\ choice = "6" => arScale = Str(builder.answers.customScale)
            /\ choice \notin {"1", "2", "3", "4", "5", "6"} =>
                  arScale = Str("1 1 1")
            /\ arScale # Str("custom")

\* the names of the attributes the handler set
AttributesSet == {page.wrote[i].name : i \in {j \in 1..Len(page.wrote) : page.wrote[j].kind = "attr"}}

Reverse(ws) == [i \in 1..Len(ws) |-> ws[Len(ws) + 1 - i]]

C23_KeyIdAgreement ==
    (\A k \in DOMAIN added : IdOf(added[k].model).t = "string") =>
        /\ \A k \in DOMAIN models : IdOf(models[k]) = Str(k)
        /\ \A k \in DOMAIN models \cup DOMAIN added :
              /\ getModel(k) # Null
              /\ IdOf(getModel(k)) = Str(k)

C23_Witness ==
    /\ writes = 2
    /\ DOMAIN added = {"chair", "terraced-scene"}
    /\ \A k \in DOMAIN added : IdOf(added[k].model).t = "string"
    /\ DOMAIN models = {"terraced-scene", TemplateId, "chair"}
    /\ models["terraced-scene"].v.arScale = Str("0.05 0.05 0.05")

\* Whether the command line asks for generation: no help flag, and a first
\* argument that is not empty and is not the placeholder URL
GenerationRequested ==
    /\ ~Includes(qr.args, "-h")
    /\ ~Includes(qr.args, "--help")
    /\ Len(qr.args) >= 1
    /\ qr.args[1] # ""
    /\ qr.args[1] # "https://your-ar-site.com"

\* C24: once the main execution has run, generation has been started exactly
\* when the command line asks for it; otherwise the tool has printed only
\* the usage text (after the request for a URL when no help flag was given),
\* has called no encoder, has written no file, and ends with exit code 0.
C24_GenerateQrDispatch ==
    (qr.pc \notin {"not run", "main"}) =>
        /\ qr.attempted <=> GenerationRequested
        /\ ~GenerationRequested =>
              /\ qr.out \in {<<"help">>, <<"please provide your deployed URL", "help">>}
              /\ qr.out = <<"help">> <=>
                    (Includes(qr.args, "-h") \/ Includes(qr.args, "--help"))
              /\ qr.calls = <<>>
              /\ qr.written = <<>>
              /\ DOMAIN qr.files = {}
              /\ ~qr.failed
              /\ qr.pc \in {"end", "exited"}
              /\ qr.pc = "exited" => qr.code = 0

C24_Witness ==
    /\ qr.pc = "exited"
    /\ qr.args = <<"https://your-ar-site.com", "custom-qr.png">>
    /\ ~qr.attempted
    /\ qr.code = 0

============================================================================
